---- MODULE Spec2Model ----
(***************************************************************************)
(* Model of src/codegen/mod.rs: the value table, the two-register tracker, *)
(* the typed handles and the executable runtime of the copy-and-patch      *)
(* code generator.                                                         *)
(*                                                                         *)
(* Machine words are 8 bytes wide as in the source; a byte is modelled as  *)
(* a digit in base ByteBase (256 on the real machine), so that a word is   *)
(* a number modulo ByteBase^8 and stack memory is byte addressed.          *)
(***************************************************************************)
EXTENDS Integers, Sequences, FiniteSets, TLC

VARIABLES
    args_size,      \* CodeGenInner.args_size
    argv,           \* the argument values the generated function is called with
    junk,           \* content of machine state nothing has written yet
    values,         \* CodeGenInner.values
    free_slots,     \* CodeGenInner.free_slots
    reg_state,      \* CodeGenInner.reg_state
    code,           \* CodeGenInner.inner: the primitives emitted so far
    stack_ptr,      \* CodeGenInner.stack_ptr
    stack_size,     \* CodeGenInner.stack_size
    handles,        \* the live typed handles (I64Ref / BoolRef) of the caller
    fault,          \* "none", or the panic that aborted generation
    pc,             \* phase of the session
    generated,      \* the GeneratedCode artifact, once constructed
    result,         \* what GeneratedCode::call returned
    calls,          \* internal calls made by the last operation (history)
    last,           \* the last public operation and what it returned (history)
    nops,           \* number of public operations performed so far (history)
    budget          \* number of public operations the session performs at most

vars == <<args_size, argv, junk, values, free_slots, reg_state, code, stack_ptr,
          stack_size, handles, fault, pc, generated, result, calls, last, nops, budget>>

----------------------------------------------------------------------------
(* Bounds of the model *)

MaxArgs == 1
MaxOps == 5
MaxOwnedOps == 6
MaxRuntimeOps == 4
MaxTableOps == 6
MaxHandles == 3
MaxArgIndex == 1
ByteBase == 2

(* Program constants *)

WordBytes == 8

RECURSIVE Pow(_, _)
Pow(b, e) == IF e = 0 THEN 1 ELSE b * Pow(b, e - 1)

WordMod == Pow(ByteBase, WordBytes)
Word == 0 .. (WordMod - 1)

Undef == -1

ArgVals == {10, WordMod - 1}
I64Consts == {1, 2}
JunkVals == {0, 7}
RoundTripVals == {0, 1, 10, WordMod - 1}

----------------------------------------------------------------------------
(* CGValue, ConstValue and the register entries *)

ConstI64(n) == [type |-> "I64", v |-> n]
ConstBool(b) == [type |-> "Bool", v |-> IF b THEN 1 ELSE 0]
NoConst == [type |-> "-", v |-> 0]

Variable(dt, pos, ro) ==
    [kind |-> "Variable", data_type |-> dt, stack_pos |-> pos, readonly |-> ro,
     c |-> NoConst, has_pos |-> TRUE]

Constant(c) ==
    [kind |-> "Constant", data_type |-> c.type, stack_pos |-> 0, readonly |-> FALSE,
     c |-> c, has_pos |-> FALSE]

Free(has, pos) ==
    [kind |-> "Free", data_type |-> "-", stack_pos |-> pos, readonly |-> FALSE,
     c |-> NoConst, has_pos |-> has]

None == [some |-> FALSE, i |-> 0, dirty |-> FALSE]
Some(i, d) == [some |-> TRUE, i |-> i, dirty |-> d]

(* The primitives of the stencil backend, as entries of the emitted buffer *)

Prim(op, n, c) == [op |-> op, n |-> n, c |-> c]
take_1_stack(pos) == Prim("take_1_stack", pos, NoConst)
take_2_stack(pos) == Prim("take_2_stack", pos, NoConst)
take_1_const(c) == Prim("take_1_const", 0, c)
take_2_const(c) == Prim("take_2_const", 0, c)
duplex == Prim("duplex", 0, NoConst)
put_stack(pos) == Prim("put_stack", pos, NoConst)
add_prim(dt) == Prim("add", 0, [type |-> dt, v |-> 0])
add_const(c) == Prim("add_const", 0, c)
ret_prim == Prim("ret", 0, NoConst)

----------------------------------------------------------------------------
(* The generator state as one record, threaded through the internal calls *)

Cur ==
    [values |-> values, free_slots |-> free_slots, reg_state |-> reg_state,
     code |-> code, stack_ptr |-> stack_ptr, stack_size |-> stack_size,
     fault |-> "none", ret |-> Undef, log |-> <<>>]

(* the one element of a singleton: Only({f(x) : x \in {e}}) is f(e), with e *)
(* evaluated once                                                         *)
Only(S) == CHOOSE x \in S : TRUE

Ok(s) == s.fault = "none"
Panic(s, why) == [s EXCEPT !.fault = why, !.ret = Undef]
Emit(s, p) == [s EXCEPT !.code = Append(@, p)]
Ret(s, r) == [s EXCEPT !.ret = r]
InTable(s, i) == i >= 0 /\ i < Len(s.values)
At(s, i) == s.values[i + 1]
Max(a, b) == IF a >= b THEN a ELSE b

Snap(s) ==
    [values |-> s.values, free_slots |-> s.free_slots, reg_state |-> s.reg_state,
     stack_ptr |-> s.stack_ptr, stack_size |-> s.stack_size, ncode |-> Len(s.code)]

Logged(s, fn, a, t) ==
    [t EXCEPT !.log = Append(@, [fn |-> fn, arg |-> a, pre |-> Snap(s), post |-> Snap(t),
                                 ret |-> t.ret, fault |-> t.fault])]

----------------------------------------------------------------------------
(* CodeGenInner::new *)

NewValues(args) == [k \in 1 .. args |-> Variable("I64", (k - 1) * WordBytes, TRUE)]

(* free_reg that forgets the write-back of a dirty register *)
free_reg_no_spill(s, reg, new_i) ==
    LET rs == s.reg_state[reg + 1] IN
    IF ~rs.some \/ ~rs.dirty THEN Ret(s, 0)
    ELSE IF ~InTable(s, rs.i) THEN Panic(s, "index out of bounds")
    ELSE IF At(s, rs.i).kind = "Variable" /\ rs.i = new_i THEN Ret(s, 1)
    ELSE Ret(s, 0)

(* free_reg that writes the dirty register back to the offset named by the *)
(* value's index                                                           *)
free_reg_spill_index(s, reg, new_i) ==
    LET rs == s.reg_state[reg + 1] IN
    IF ~rs.some \/ ~rs.dirty THEN Ret(s, 0)
    ELSE IF ~InTable(s, rs.i) THEN Panic(s, "index out of bounds")
    ELSE LET cur_value == At(s, rs.i) IN
         CASE cur_value.kind = "Variable" ->
                IF cur_value.readonly
                THEN Panic(s, "dirty readonly value")
                ELSE IF rs.i # new_i
                     THEN IF reg = 0
                          THEN Ret(Emit(s, put_stack(rs.i)), 0)
                          ELSE Panic(s, "todo")
                     ELSE Ret(s, 1)
           [] cur_value.kind = "Constant" -> Panic(s, "dirty const value")
           [] OTHER -> Ret(s, 0)

(* CodeGenInner::free_reg; ret is 1 for true, 0 for false *)
free_reg(s, reg, new_i) ==
    LET rs == s.reg_state[reg + 1] IN
    IF ~rs.some \/ ~rs.dirty THEN Ret(s, 0)
    ELSE IF ~InTable(s, rs.i) THEN Panic(s, "index out of bounds")
    ELSE LET cur_value == At(s, rs.i) IN
         CASE cur_value.kind = "Variable" ->
                IF cur_value.readonly
                THEN Panic(s, "dirty readonly value")
                ELSE IF rs.i # new_i
                     THEN IF reg = 0
                          THEN Ret(Emit(s, put_stack(cur_value.stack_pos)), 0)
                          ELSE Panic(s, "todo")
                     ELSE Ret(s, 1)
           [] cur_value.kind = "Constant" -> Panic(s, "dirty const value")
           [] OTHER -> Ret(s, 0)

(* the load at the end of put_in_reg1 / put_in_reg2 *)
load_value(s, reg, v) ==
    IF ~InTable(s, v) THEN Panic(s, "index out of bounds")
    ELSE LET value == At(s, v) IN
         CASE value.kind = "Variable" ->
                [Emit(s, IF reg = 0 THEN take_1_stack(value.stack_pos)
                                    ELSE take_2_stack(value.stack_pos))
                    EXCEPT !.reg_state[reg + 1] = Some(v, FALSE), !.ret = Undef]
           [] value.kind = "Constant" ->
                [Emit(s, IF reg = 0 THEN take_1_const(value.c) ELSE take_2_const(value.c))
                    EXCEPT !.reg_state[reg + 1] = Some(v, FALSE), !.ret = Undef]
           [] OTHER -> Panic(s, "unreachable")

put_in_reg1_body(s, v) ==
    Only({IF ~Ok(s1) THEN s1
          ELSE IF s1.ret = 1 THEN Ret(s1, Undef)
          ELSE IF s1.reg_state[2].some /\ s1.reg_state[2].i = v THEN Panic(s1, "todo")
          ELSE load_value(s1, 0, v) : s1 \in {free_reg(s, 0, v)}})

put_in_reg1(s, v) == Logged(s, "put_in_reg1", <<v>>, put_in_reg1_body(s, v))

put_in_reg2_body(s, v) ==
    Only({IF ~Ok(s1) THEN s1
          ELSE IF s1.reg_state[1].some /\ s1.reg_state[1].i = v
          THEN IF s1.reg_state[1].dirty THEN Panic(s1, "todo")
               ELSE [Emit(s1, duplex) EXCEPT !.reg_state[2] = s1.reg_state[1], !.ret = Undef]
          ELSE load_value(s1, 1, v) : s1 \in {free_reg(s, 1, v)}})

put_in_reg2(s, v) == Logged(s, "put_in_reg2", <<v>>, put_in_reg2_body(s, v))

(* allocate_stack that carves a new offset even when the slot remembers one *)
allocate_stack_fresh_offset(s, data_type) ==
    Only({[s1 EXCEPT !.values[s1.ret + 1] = Variable(data_type, s1.stack_ptr, FALSE),
                     !.stack_ptr = @ + WordBytes,
                     !.stack_size = Max(@, s1.stack_ptr + WordBytes)]
          : s1 \in {IF Len(s.free_slots) > 0
                    THEN [s EXCEPT !.free_slots = SubSeq(@, 1, Len(@) - 1),
                                   !.ret = s.free_slots[Len(s.free_slots)]]
                    ELSE [s EXCEPT !.values = Append(@, Free(FALSE, 0)),
                                   !.ret = Len(s.values)]}})

(* a free list served first-in first-out *)
pop_free_slot_fifo(s) ==
    IF Len(s.free_slots) > 0
    THEN [s EXCEPT !.free_slots = Tail(@), !.ret = s.free_slots[1]]
    ELSE [s EXCEPT !.values = Append(@, Free(FALSE, 0)), !.ret = Len(s.values)]

(* CodeGenInner::allocate_stack *)
pop_free_slot(s) ==
    IF Len(s.free_slots) > 0
    THEN [s EXCEPT !.free_slots = SubSeq(@, 1, Len(@) - 1),
                   !.ret = s.free_slots[Len(s.free_slots)]]
    ELSE [s EXCEPT !.values = Append(@, Free(FALSE, 0)), !.ret = Len(s.values)]

allocate_stack_body(s, data_type) ==
    Only({IF At(s1, s1.ret).kind # "Free" THEN Panic(s1, "unreachable")
          ELSE IF At(s1, s1.ret).has_pos
          THEN [s1 EXCEPT !.values[s1.ret + 1] =
                              Variable(data_type, At(s1, s1.ret).stack_pos, FALSE)]
          ELSE [s1 EXCEPT !.values[s1.ret + 1] = Variable(data_type, s1.stack_ptr, FALSE),
                          !.stack_ptr = @ + WordBytes,
                          !.stack_size = Max(@, s1.stack_ptr + WordBytes)]
          : s1 \in {pop_free_slot(s)}})

allocate_stack(s, data_type) ==
    Logged(s, "allocate_stack", <<>>, allocate_stack_body(s, data_type))

(* CodeGenInner::dirty_reg1; ret is the index, Undef for None *)
alias_never(reg_state2) == FALSE

alias_of_reg1(reg_state2) == reg_state2.i = reg_state2.i

(* a read-only value dirtied in place *)
promote_readonly_in_place(s) == Ret(s, s.reg_state[1].i)

(* register 1 holds a read-only value: a new slot, and register 1 repointed *)
promote_readonly(s) ==
    Only({IF ~Ok(s3) THEN s3 ELSE [s3 EXCEPT !.reg_state[1].i = s3.ret]
          : s3 \in {allocate_stack(s, "I64")}})

(* a Constant promoted into a newly allocated entry *)
promote_constant_fresh(s, i) ==
    Only({IF ~Ok(s3) THEN s3 ELSE [s3 EXCEPT !.reg_state[1].i = s3.ret]
          : s3 \in {allocate_stack(s, At(s, i).c.type)}})

(* a Constant dirtied without a slot *)
promote_constant_skipped(s, i) == Ret(s, i)

(* register 1 holds a Constant: it becomes a Variable at a new offset *)
promote_constant(s, i) ==
    [s EXCEPT !.values[i + 1] = Variable(At(s, i).c.type, s.stack_ptr, FALSE),
              !.stack_ptr = @ + WordBytes,
              !.stack_size = Max(@, s.stack_ptr + WordBytes),
              !.ret = i]

dirty_reg1_body(s) ==
    Only({IF ~s.reg_state[1].some THEN Ret(s1, Undef)
          ELSE Only({IF ~InTable(s2, i) THEN Panic(s2, "index out of bounds")
                     ELSE CASE At(s2, i).kind = "Variable" ->
                                 IF At(s2, i).readonly
                                 THEN promote_readonly(s2)
                                 ELSE Ret(s2, i)
                            [] At(s2, i).kind = "Constant" -> promote_constant(s2, i)
                            [] OTHER -> Panic(s2, "unreachable")
                     : s2 \in {[s1 EXCEPT !.reg_state[1].dirty = TRUE]},
                       i \in {s.reg_state[1].i}})
          : s1 \in {IF s.reg_state[2].some /\ alias_of_reg1(s.reg_state[2])
                    THEN [s EXCEPT !.reg_state[2] = None]
                    ELSE s}})

dirty_reg1(s) == Logged(s, "dirty_reg1", <<>>, dirty_reg1_body(s))

(* CodeGenInner::clone_value *)
clone_reg1(s, v) ==
    IF s.reg_state[1].some
    THEN Only({IF s.reg_state[1].i = v
               THEN [sa EXCEPT !.reg_state[1].i = Len(s.values)]
               ELSE sa
               : sa \in {IF s.reg_state[1].dirty
                         THEN [Emit(s, put_stack(s.reg_state[1].i))
                                   EXCEPT !.reg_state[1].dirty = FALSE]
                         ELSE s}})
    ELSE \* the assignment through unwrap() that follows writes to a copy of the entry
         put_in_reg1(s, v)

clone_value_body(s, v) ==
    IF ~InTable(s, v) THEN Panic(s, "index out of bounds")
    ELSE CASE At(s, v).kind = "Variable" ->
                Only({IF ~Ok(s1) THEN s1 ELSE allocate_stack(s1, At(s, v).data_type)
                      : s1 \in {clone_reg1(s, v)}})
           [] At(s, v).kind = "Constant" ->
                [s EXCEPT !.values = Append(@, Constant(At(s, v).c)), !.ret = Len(s.values)]
           [] OTHER -> Panic(s, "unreachable")

clone_value(s, v) == Logged(s, "clone_value", <<v>>, clone_value_body(s, v))

(* CodeGenInner::free_value *)
free_value_body(s, v) ==
    IF ~InTable(s, v) THEN Panic(s, "index out of bounds")
    ELSE LET value == At(s, v) IN
         CASE value.kind = "Variable" ->
                IF value.readonly THEN Ret(s, Undef)
                ELSE [s EXCEPT !.values[v + 1] = Free(TRUE, value.stack_pos),
                               !.free_slots = Append(@, v), !.ret = Undef]
           [] value.kind = "Constant" ->
                [s EXCEPT !.values[v + 1] = Free(FALSE, 0),
                          !.free_slots = Append(@, v), !.ret = Undef]
           [] OTHER -> Ret(s, Undef)

free_value(s, v) == Logged(s, "free_value", <<v>>, free_value_body(s, v))

(* add that leaves a Constant right operand out of the sum *)
add_operand_no_imm(s, vr, r) ==
    CASE vr.kind = "Variable" ->
           Only({IF ~Ok(s1) THEN s1 ELSE Emit(s1, add_prim(vr.data_type))
                 : s1 \in {put_in_reg2(s, r)}})
      [] vr.kind = "Constant" -> Emit(s, add_prim(vr.data_type))
      [] OTHER -> Panic(s, "unreachable")

(* CodeGenInner::add *)
add_operand(s, vr, r) ==
    CASE vr.kind = "Variable" ->
           Only({IF ~Ok(s1) THEN s1 ELSE Emit(s1, add_prim(vr.data_type))
                 : s1 \in {put_in_reg2(s, r)}})
      [] vr.kind = "Constant" -> Emit(s, add_const(vr.c))
      [] OTHER -> Panic(s, "unreachable")

add_body(s, l, r) ==
    IF ~InTable(s, r) THEN Panic(s, "index out of bounds")
    ELSE Only({IF ~Ok(s1) THEN s1
               ELSE Only({IF ~Ok(s2) THEN s2
                          ELSE Only({IF ~Ok(s3) THEN s3
                                     ELSE IF s3.ret = Undef
                                          THEN Panic(s3, "unwrap on None")
                                          ELSE s3
                                     : s3 \in {dirty_reg1(s2)}})
                          : s2 \in {add_operand(s1, At(s, r), r)}})
               : s1 \in {put_in_reg1(s, l)}})

add(s, l, r) == Logged(s, "add", <<l, r>>, add_body(s, l, r))

(* CodeGenInner::generate_return *)
generate_return(s, return_value) ==
    Only({IF ~Ok(s1) THEN s1
          ELSE Ret(Emit(Emit(s1, put_stack(0)), ret_prim), Undef)
          : s1 \in {put_in_reg1(s, return_value)}})

----------------------------------------------------------------------------
(* The machine the emitted primitives run on: two scratch registers and    *)
(* the private stack, byte addressed, one word being WordBytes bytes.      *)

MaxSlots == MaxArgs + Max(Max(MaxOps, MaxOwnedOps), Max(MaxRuntimeOps, MaxTableOps)) + 1
MemBytes == WordBytes * MaxSlots

ByteOf(w, k) == (w \div Pow(ByteBase, k)) % ByteBase

RECURSIVE ReadFrom(_, _, _)
ReadFrom(mem, o, k) ==
    IF k = WordBytes THEN 0
    ELSE mem[o + k] * Pow(ByteBase, k) + ReadFrom(mem, o, k + 1)

ReadWord(mem, o) == ReadFrom(mem, o, 0)

WriteWord(mem, o, w) ==
    [a \in DOMAIN mem |-> IF a >= o /\ a < o + WordBytes THEN ByteOf(w, a - o) ELSE mem[a]]

(* GeneratedCode::call writes argument i to word i of the stack *)
InitWord(a) ==
    IF a \div WordBytes < Len(argv) THEN argv[(a \div WordBytes) + 1] ELSE junk

InitMachine ==
    [r1 |-> junk, r2 |-> junk, halted |-> FALSE,
     mem |-> [a \in 0 .. (MemBytes - 1) |-> ByteOf(InitWord(a), a % WordBytes)]]

ExecPrim(m, p) ==
    IF m.halted THEN m
    ELSE CASE p.op = "take_1_stack" -> [m EXCEPT !.r1 = ReadWord(m.mem, p.n)]
           [] p.op = "take_2_stack" -> [m EXCEPT !.r2 = ReadWord(m.mem, p.n)]
           [] p.op = "take_1_const" -> [m EXCEPT !.r1 = p.c.v % WordMod]
           [] p.op = "take_2_const" -> [m EXCEPT !.r2 = p.c.v % WordMod]
           [] p.op = "duplex" -> [m EXCEPT !.r2 = m.r1]
           [] p.op = "put_stack" -> [m EXCEPT !.mem = WriteWord(m.mem, p.n, m.r1)]
           [] p.op = "add" -> [m EXCEPT !.r1 = (m.r1 + m.r2) % WordMod]
           [] p.op = "add_const" -> [m EXCEPT !.r1 = (m.r1 + p.c.v) % WordMod]
           [] OTHER -> [m EXCEPT !.halted = TRUE]

RECURSIVE ExecFrom(_, _, _)
ExecFrom(prims, k, m) ==
    IF k > Len(prims) THEN m ELSE ExecFrom(prims, k + 1, ExecPrim(m, prims[k]))

Exec(prims) == ExecFrom(prims, 1, InitMachine)

(* what call returns for the emitted primitives: stack word 0 after the run *)
CallResult(prims) == ReadWord(Exec(prims).mem, 0)

(* the value a handle evaluates to when it is returned from the current state *)
Faulted == -2
EvalFrom(m, i) ==
    LET t == generate_return(Cur, i) IN
    IF Ok(t) THEN ReadWord(ExecFrom(t.code, Len(code) + 1, m).mem, 0) ELSE Faulted

EvalIndex(i) == EvalFrom(Exec(code), i)

----------------------------------------------------------------------------
(* Typed value handles.  expr is the expression the handle stands for      *)
(* (history); Den is the value it denotes for the arguments argv, Undef    *)
(* when get_arg named no argument.                                         *)
(* The live handles form a bag: a function from handle to its multiplicity *)

Handle(i, dt, e) == [i |-> i, data_type |-> dt, expr |-> e]

ArgExpr(n) == <<"arg", n>>
ConstExpr(v) == <<"const", v>>
AddExpr(a, b) == <<"add", a, b>>

Sum(a, b) == IF a = Undef \/ b = Undef THEN Undef ELSE (a + b) % WordMod

RECURSIVE Den(_)
Den(e) ==
    CASE e[1] = "arg" -> IF e[2] < args_size THEN argv[e[2] + 1] ELSE Undef
      [] e[1] = "const" -> e[2] % WordMod
      [] OTHER -> Sum(Den(e[2]), Den(e[3]))

NoHandles == [h \in {} |-> 0]

Live == DOMAIN handles

RECURSIVE CountOf(_, _)
CountOf(B, S) ==
    IF S = {} THEN 0
    ELSE LET h == CHOOSE x \in S : TRUE IN B[h] + CountOf(B, S \ {h})

NumHandles == CountOf(handles, Live)

With(B, h) ==
    IF h \in DOMAIN B THEN [B EXCEPT ![h] = @ + 1]
    ELSE [x \in DOMAIN B \cup {h} |-> IF x = h THEN 1 ELSE B[x]]

Without(B, h) ==
    IF B[h] > 1 THEN [B EXCEPT ![h] = @ - 1]
    ELSE [x \in DOMAIN B \ {h} |-> B[x]]

(* two different live handle objects *)
Distinct(l, r) == l # r \/ handles[l] >= 2

I64Live == {h \in Live : h.data_type = "I64"}

NoArtifact == [made |-> FALSE, code |-> "-", ghcc_code |-> "-", stack |-> "-",
               hole |-> "-", code_len |-> 0, stack_len |-> 0]

Op(name, l, r, ret) ==
    [op |-> name, l |-> l, r |-> r, ret |-> ret, expr |-> <<>>, other |-> Undef]

(* the handle a clone made of l, or l was cloned from, by the operation    *)
(* just before this one                                                    *)
TwinOf(l) ==
    IF last.op = "clone" /\ fault = "none" /\ last.l # last.ret
    THEN IF l.i = last.l /\ l.expr = last.expr THEN last.ret
         ELSE IF l.i = last.ret /\ l.expr = last.expr THEN last.l
         ELSE Undef
    ELSE Undef


Generating == pc = "gen" /\ fault = "none" /\ nops < budget

(* write the generator record back, with the handles the operation leaves *)
Commit(t, hs, op) ==
    /\ values' = t.values
    /\ free_slots' = t.free_slots
    /\ reg_state' = t.reg_state
    /\ code' = t.code
    /\ stack_ptr' = t.stack_ptr
    /\ stack_size' = t.stack_size
    /\ fault' = t.fault
    /\ calls' = t.log
    /\ handles' = IF Ok(t) THEN hs ELSE handles
    /\ last' = op
    /\ nops' = nops + 1
    /\ UNCHANGED <<args_size, argv, junk, generated, result, budget>>

InitSession(argvals, ops) ==
    /\ args_size \in 0 .. MaxArgs
    /\ argv \in [1 .. args_size -> argvals]
    /\ junk \in JunkVals
    /\ values = NewValues(args_size)
    /\ free_slots = <<>>
    /\ reg_state = <<None, None>>
    /\ code = <<>>
    /\ stack_ptr = args_size * WordBytes
    /\ stack_size = args_size * WordBytes
    /\ handles = NoHandles
    /\ fault = "none"
    /\ pc = "gen"
    /\ generated = NoArtifact
    /\ result = Undef
    /\ calls = <<>>
    /\ last = Op("new", Undef, Undef, Undef)
    /\ nops = 0
    /\ budget = ops

Init == InitSession(ArgVals, MaxOps)

(* CodeGen::get_arg *)
GetArg(n) ==
    /\ Generating
    /\ NumHandles < MaxHandles
    /\ Commit(Cur,
              With(handles, Handle(n, "I64", ArgExpr(n))),
              Op("get_arg", n, Undef, n))
    /\ UNCHANGED pc

(* CodeGen::new_i64_const / CodeGen::new_bool_const *)
new_const(s, c) ==
    [s EXCEPT !.values = Append(@, Constant(c)), !.ret = Len(s.values)]

NewI64Const(n) ==
    /\ Generating
    /\ NumHandles < MaxHandles
    /\ \E t \in {new_const(Cur, ConstI64(n))} :
       Commit(t, With(handles, Handle(t.ret, "I64", ConstExpr(n))),
              Op("new_i64_const", Undef, Undef, t.ret))
    /\ UNCHANGED pc

NewBoolConst(b) ==
    /\ Generating
    /\ NumHandles < MaxHandles
    /\ \E t \in {new_const(Cur, ConstBool(b))} :
       Commit(t, With(handles, Handle(t.ret, "Bool", ConstExpr(ConstBool(b).v))),
              Op("new_bool_const", Undef, Undef, t.ret))
    /\ UNCHANGED pc

(* impl Clone for I64Ref / BoolRef *)
Clone(h) ==
    /\ Generating
    /\ NumHandles < MaxHandles
    /\ \E t \in {clone_value(Cur, h.i)} :
       Commit(t, With(handles, Handle(t.ret, h.data_type, h.expr)),
              [Op("clone", h.i, Undef, t.ret) EXCEPT !.expr = h.expr])
    /\ UNCHANGED pc

(* impl Add<&Self> for I64Ref: the left handle is consumed; it is returned *)
(* when add gave its index back, else it is dropped after the new handle   *)
(* was made                                                                *)
add_owned(s, l, r) ==
    Only({IF ~Ok(t) THEN t
          ELSE IF t.ret = l THEN t
          ELSE Only({Ret(u, t.ret) : u \in {free_value(t, l)}})
          : t \in {add(s, l, r)}})

AddOwned(l, r) ==
    /\ Generating
    /\ Distinct(l, r)
    /\ \E t \in {add_owned(Cur, l.i, r.i)} :
       Commit(t, With(Without(handles, l), Handle(t.ret, l.data_type, AddExpr(l.expr, r.expr))),
              [Op("add_owned", l.i, r.i, t.ret) EXCEPT !.expr = l.expr, !.other = TwinOf(l)])
    /\ UNCHANGED pc

(* impl AddAssign<&Self> for I64Ref: assigning the new handle drops the old *)
AddAssign(l, r) ==
    /\ Generating
    /\ Distinct(l, r)
    /\ \E t \in {add_owned(Cur, l.i, r.i)} :
       Commit(t, With(Without(handles, l), Handle(t.ret, l.data_type, AddExpr(l.expr, r.expr))),
              [Op("add_assign", l.i, r.i, t.ret) EXCEPT !.expr = l.expr, !.other = TwinOf(l)])
    /\ UNCHANGED pc

(* impl Add for &I64Ref: clone the left operand, then add by ownership *)
add_ref(s, l, r) ==
    Only({IF ~Ok(t) THEN t ELSE add_owned(t, t.ret, r) : t \in {clone_value(s, l)}})

AddRef(l, r) ==
    /\ Generating
    /\ NumHandles < MaxHandles
    /\ \E t \in {add_ref(Cur, l.i, r.i)} :
       Commit(t, With(handles, Handle(t.ret, l.data_type, AddExpr(l.expr, r.expr))),
              [Op("add_ref", l.i, r.i, t.ret) EXCEPT !.expr = l.expr, !.other = l.i])
    /\ UNCHANGED pc

(* impl Drop for CGValueRef *)
DropHandle(h) ==
    /\ Generating
    /\ \E t \in {free_value(Cur, h.i)} :
       Commit(t, Without(handles, h), Op("drop", h.i, Undef, Undef))
    /\ UNCHANGED pc

(* CodeGenInner::reset; CodeGen::reset takes &mut self, so no handle is live *)
reset(s) ==
    [s EXCEPT !.reg_state = <<None, None>>, !.values = <<>>, !.free_slots = <<>>,
              !.stack_ptr = args_size * WordBytes, !.stack_size = args_size * WordBytes,
              !.code = <<>>, !.ret = Undef]

Reset ==
    /\ Generating
    /\ handles = NoHandles
    /\ \E t \in {reset(Cur)} : Commit(t, handles, Op("reset", Undef, Undef, Undef))
    /\ UNCHANGED pc

(* CodeGen::generate_return *)
Return(h) ==
    /\ Generating
    /\ \E t \in {generate_return(Cur, h.i)} :
       /\ Commit(t, handles, [Op("generate_return", h.i, Undef, Undef) EXCEPT !.expr = h.expr])
       /\ pc' = IF Ok(t) THEN "returned" ELSE pc

----------------------------------------------------------------------------
(* The executable runtime *)

(* libc::mmap: MAP_FAILED when the kernel refuses (ok = FALSE) or the      *)
(* length is 0                                                             *)
mmap(len, ok) == IF len = 0 \/ ~ok THEN "MAP_FAILED" ELSE "mapped"

(* GeneratedCode::new: the three mappings, the patch of the wrapper's hole *)
(* with the code address, and the two copies.  A copy of at least one byte *)
(* to MAP_FAILED stops the process.                                        *)
GeneratedCode_new(ssize, prims, okc, okw, oks) ==
    LET code_region == mmap(Len(prims), okc)
        ghcc_fun == mmap(1, okw)
        stack_space == mmap(ssize, oks)
        crashed == ghcc_fun = "MAP_FAILED" \/ (code_region = "MAP_FAILED" /\ Len(prims) > 0)
    IN  [made |-> ~crashed, code |-> code_region, ghcc_code |-> ghcc_fun,
         stack |-> stack_space, hole |-> code_region,
         code_len |-> Len(prims), stack_len |-> ssize]

(* CodeGen::generate_code -> CopyPatchBackend::generate_code(stack_size) *)
GenerateCode(okc, okw, oks) ==
    /\ pc = "returned" /\ fault = "none"
    /\ \E g \in {GeneratedCode_new(stack_size, code, okc, okw, oks)} :
       /\ generated' = g
       /\ fault' = IF g.made THEN "none" ELSE "segfault"
       /\ pc' = IF g.made THEN "built" ELSE pc
    /\ last' = [Op("generate_code", Undef, Undef, Undef) EXCEPT !.expr = last.expr]
    /\ calls' = <<>>
    /\ UNCHANGED <<args_size, argv, junk, values, free_slots, reg_state, code, stack_ptr,
                   stack_size, handles, result, nops, budget>>

(* GeneratedCode::call: arguments to the stack, run, read stack word 0 *)
Call ==
    /\ pc = "built" /\ fault = "none"
    /\ IF generated.stack = "MAP_FAILED"
       THEN /\ fault' = "segfault"
            /\ UNCHANGED <<result, pc>>
       ELSE /\ result' = CallResult(code)
            /\ pc' = "called"
            /\ UNCHANGED fault
    /\ last' = [Op("call", Undef, Undef, Undef) EXCEPT !.expr = last.expr]
    /\ calls' = <<>>
    /\ UNCHANGED <<args_size, argv, junk, values, free_slots, reg_state, code, stack_ptr,
                   stack_size, handles, generated, nops, budget>>

----------------------------------------------------------------------------
(* The three memory regions of an artifact, in pages.  libc::mmap maps     *)
(* whole pages: a request of len bytes maps PagesOf(len) pages.            *)

PageBytes == 4096

(* the length Drop for GeneratedCode passes to every munmap: 0x1000 *)
DropBytes == 4096

PagesOf(len) == (len + PageBytes - 1) \div PageBytes

(* a region as new leaves it: its address, the pages still mapped in it,   *)
(* and the pages unmapped beyond its end                                   *)
Region(len, ok) ==
    [addr |-> mmap(len, ok),
     pages |-> IF mmap(len, ok) = "MAP_FAILED" THEN 0 ELSE PagesOf(len),
     stray |-> 0]

(* libc::munmap(addr, len): EINVAL on the unaligned address MAP_FAILED,    *)
(* else the first PagesOf(len) pages from addr are unmapped                *)
munmap(region, len) ==
    IF region.addr = "MAP_FAILED" THEN region
    ELSE [region EXCEPT !.pages = Max(0, region.pages - PagesOf(len)),
                        !.stray = @ + Max(0, PagesOf(len) - region.pages)]

(* GeneratedCode::new for a code of code_len bytes and a wrapper of        *)
(* wrapper_len bytes                                                       *)
GeneratedCode_regions(ssize, wrapper_len, code_len, okc, okw, oks) ==
    [code |-> Region(code_len, okc),
     ghcc_code |-> Region(wrapper_len, okw),
     stack |-> Region(ssize, oks)]

(* impl Drop for GeneratedCode *)
GeneratedCode_drop(regions) ==
    [code |-> munmap(regions.code, DropBytes),
     ghcc_code |-> munmap(regions.ghcc_code, DropBytes),
     stack |-> munmap(regions.stack, DropBytes)]

StackLens == {0, WordBytes, PageBytes, PageBytes + WordBytes, 2 * PageBytes + WordBytes}
WrapperLens == {16, PageBytes + 1}
CodeLens == {1, PageBytes, PageBytes + 1}

(* GeneratedCode::new called with a stack size, a wrapper and a code *)
NewArtifact(ssize, wrapper_len, code_len, okc, okw, oks) ==
    /\ pc = "gen" /\ fault = "none"
    /\ \E r \in {GeneratedCode_regions(ssize, wrapper_len, code_len, okc, okw, oks)} :
       \E crashed \in {r.ghcc_code.addr = "MAP_FAILED" \/ r.code.addr = "MAP_FAILED"} :
       /\ generated' = [made |-> ~crashed, code |-> r.code.addr,
                        ghcc_code |-> r.ghcc_code.addr, stack |-> r.stack.addr,
                        hole |-> r.code.addr, code_len |-> code_len,
                        stack_len |-> ssize, regions |-> r]
       /\ fault' = IF crashed THEN "segfault" ELSE "none"
       /\ pc' = IF crashed THEN pc ELSE "built"
    /\ last' = Op("new_artifact", Undef, Undef, Undef)
    /\ calls' = <<>>
    /\ UNCHANGED <<args_size, argv, junk, values, free_slots, reg_state, code, stack_ptr,
                   stack_size, handles, result, nops, budget>>

(* the artifact goes out of scope *)
DropArtifact ==
    /\ pc = "built" /\ fault = "none"
    /\ generated' = [generated EXCEPT !.regions = GeneratedCode_drop(@)]
    /\ pc' = "dropped"
    /\ last' = Op("drop_artifact", Undef, Undef, Undef)
    /\ calls' = <<>>
    /\ UNCHANGED <<args_size, argv, junk, values, free_slots, reg_state, code, stack_ptr,
                   stack_size, handles, result, fault, nops, budget>>

----------------------------------------------------------------------------
(* The session: every public operation of the handle API *)
Next ==
    \/ \E n \in 0 .. MaxArgIndex : GetArg(n)
    \/ \E n \in I64Consts : NewI64Const(n)
    \/ \E b \in BOOLEAN : NewBoolConst(b)
    \/ \E h \in Live : Clone(h)
    \/ \E l, r \in I64Live : AddOwned(l, r)
    \/ \E l, r \in I64Live : AddAssign(l, r)
    \/ \E l, r \in I64Live : AddRef(l, r)
    \/ \E h \in Live : DropHandle(h)
    \/ Reset
    \/ \E h \in Live : Return(h)

Spec == Init /\ [][Next]_vars

(* Sessions without clone: arguments, constants, adds by ownership, drops *)
InitOwned == InitSession(ArgVals, MaxOwnedOps)

NextOwned ==
    \/ \E n \in 0 .. (args_size - 1) : GetArg(n)
    \/ \E n \in I64Consts : NewI64Const(n)
    \/ \E l, r \in I64Live : AddOwned(l, r)
    \/ \E l, r \in I64Live : AddAssign(l, r)
    \/ \E h \in Live : DropHandle(h)
    \/ \E h \in Live : Return(h)

SpecOwned == InitOwned /\ [][NextOwned]_vars

(* Short sessions carried through the executable runtime *)
InitRuntime == InitSession(RoundTripVals, MaxRuntimeOps)

NextRuntime ==
    \/ GetArg(0)
    \/ \E n \in RoundTripVals : NewI64Const(n)
    \/ \E l, r \in I64Live : AddOwned(l, r)
    \/ \E h \in Live : Return(h)
    \/ \E okc, okw, oks \in BOOLEAN : GenerateCode(okc, okw, oks)
    \/ Call

SpecRuntime == InitRuntime /\ [][NextRuntime]_vars

(* The value table alone: constants, clones and drops *)
InitTable == InitSession(ArgVals, MaxTableOps)

NextTable ==
    \/ GetArg(0)
    \/ NewI64Const(1)
    \/ \E h \in Live : Clone(h)
    \/ \E h \in Live : DropHandle(h)

SpecTable == InitTable /\ [][NextTable]_vars

(* Sessions in which get_arg names an argument and the generator is not   *)
(* reset: every handle operation else                                      *)
NextInRange ==
    \/ \E n \in 0 .. (args_size - 1) : GetArg(n)
    \/ \E n \in I64Consts : NewI64Const(n)
    \/ \E b \in BOOLEAN : NewBoolConst(b)
    \/ \E h \in Live : Clone(h)
    \/ \E l, r \in I64Live : AddOwned(l, r)
    \/ \E l, r \in I64Live : AddAssign(l, r)
    \/ \E l, r \in I64Live : AddRef(l, r)
    \/ \E h \in Live : DropHandle(h)
    \/ \E h \in Live : Return(h)

SpecInRange == Init /\ [][NextInRange]_vars

(* The life of an artifact: construction from given sizes, then drop *)
InitArtifact == InitSession(ArgVals, 0)

NextArtifact ==
    \/ \E ssize \in StackLens, wrapper_len \in WrapperLens, code_len \in CodeLens,
          okc, okw, oks \in BOOLEAN :
          NewArtifact(ssize, wrapper_len, code_len, okc, okw, oks)
    \/ DropArtifact

SpecArtifact == InitArtifact /\ [][NextArtifact]_vars

----------------------------------------------------------------------------
(* Vocabulary of the properties *)

Events(fn) == {k \in 1 .. Len(calls) : calls[k].fn = fn /\ calls[k].fault = "none"}

(* the internal calls of fn, those that panicked included *)
Calls(fn) == {k \in 1 .. Len(calls) : calls[k].fn = fn}

(* the primitives an internal call emitted *)
Emitted(e) == SubSeq(code, e.pre.ncode + 1, e.post.ncode)

IsReadonlyArg(vals, i) ==
    i >= 0 /\ i < Len(vals) /\ vals[i + 1].kind = "Variable" /\ vals[i + 1].readonly

IsMutable(vals, i) ==
    i >= 0 /\ i < Len(vals) /\ vals[i + 1].kind \in {"Variable", "Constant"}
    /\ ~vals[i + 1].readonly

(* a store whose WordBytes bytes overlap the slot at pos *)
StoresInto(p, pos) == p.op = "put_stack" /\ p.n < pos + WordBytes /\ pos < p.n + WordBytes

(* content of the slot at pos after the first n emitted primitives ran *)
SlotAfter(n, pos) == ReadWord(Exec(SubSeq(code, 1, n)).mem, pos)

Refs(i) == CountOf(handles, {h \in Live : h.i = i})

Aliased(rs) == rs[1].some /\ rs[2].some /\ rs[1].i = rs[2].i

----------------------------------------------------------------------------
(* C1: round-trip arithmetic.  A session with one argument a, a constant b, *)
(* one add of the argument (left, by ownership) and the constant (right)   *)
(* and a return of the sum makes call return a + b wrapped to the word     *)
(* width, for every a and b.                                               *)
C1_RoundTrip ==
    \A b \in RoundTripVals :
        (pc = "called" /\ args_size = 1 /\ last.expr = AddExpr(ArgExpr(0), ConstExpr(b)))
            => result = (argv[1] + b) % WordMod

(* the sum wrapped around: a is the largest word, b = 1, call returned 0 *)
C1_Witness ==
    /\ pc = "called" /\ args_size = 1
    /\ last.expr = AddExpr(ArgExpr(0), ConstExpr(1))
    /\ argv[1] = WordMod - 1
    /\ result = 0

C3_SingleOwner ==
    \A i \in 0 .. (Len(values) - 1) : ~IsReadonlyArg(values, i) => Refs(i) <= 1

(* C4: right after a clone of a Variable-backed handle, the clone          *)
(* evaluates to the value the original denotes.                            *)
C4_CloneYieldsValue ==
    (/\ last.op = "clone" /\ fault = "none"
     /\ Den(last.expr) # Undef
     /\ calls[Len(calls)].pre.values[last.l + 1].kind = "Variable")
        => EvalIndex(last.ret) = Den(last.expr)

(* C5: after a clone and an add applied to one of the two handles (or a    *)
(* by-reference add, which clones its left operand), the other handle      *)
(* still evaluates to the value the cloned handle had.                     *)
C5_CloneIndependence ==
    (/\ last.op \in {"add_owned", "add_assign", "add_ref"} /\ fault = "none"
     /\ last.other # Undef
     /\ Den(last.expr) # Undef)
        => EvalIndex(last.other) = Den(last.expr)

(* C6: an add whose left operand l is a read-only argument returns an      *)
(* index that is not l and not an argument, leaves l's entry as it was,    *)
(* and emits no store that touches l's slot: the slot holds the same       *)
(* content after the add as before.                                        *)
C6_CopyOnMutate ==
    \A k \in Events("add") :
        LET e == calls[k]
            l == e.arg[1]
        IN  IsReadonlyArg(e.pre.values, l) =>
              /\ e.ret # l
              /\ ~IsReadonlyArg(e.pre.values, e.ret)
              /\ IsMutable(e.post.values, e.ret)
              /\ e.post.values[l + 1] = e.pre.values[l + 1]
              /\ \A j \in 1 .. Len(Emitted(e)) :
                    ~StoresInto(Emitted(e)[j], e.pre.values[l + 1].stack_pos)
              /\ SlotAfter(e.post.ncode, e.pre.values[l + 1].stack_pos)
                    = SlotAfter(e.pre.ncode, e.pre.values[l + 1].stack_pos)

(* an add to an argument that first spilled the dirty occupant of register 1 *)
C6_Witness ==
    \E k \in Events("add") :
        LET e == calls[k] IN
        /\ IsReadonlyArg(e.pre.values, e.arg[1])
        /\ e.pre.reg_state[1].some /\ e.pre.reg_state[1].dirty
        /\ \E j \in 1 .. Len(Emitted(e)) : Emitted(e)[j].op = "put_stack"
        /\ e.ret # e.arg[1]

(* C7: an add whose left operand l is a mutable Variable or a Constant     *)
(* returns l, appends nothing to the value table and takes nothing from    *)
(* the free list.                                                          *)
C7_InPlaceReuse ==
    \A k \in Events("add") :
        LET e == calls[k]
            l == e.arg[1]
        IN  IsMutable(e.pre.values, l) =>
              /\ e.ret = l
              /\ Len(e.post.values) = Len(e.pre.values)
              /\ e.post.free_slots = e.pre.free_slots

(* an add to a Constant, promoted in place while the free list held an index *)
C7_Witness ==
    \E k \in Events("add") :
        LET e == calls[k] IN
        /\ IsMutable(e.pre.values, e.arg[1])
        /\ e.pre.values[e.arg[1] + 1].kind = "Constant"
        /\ e.post.values[e.arg[1] + 1].kind = "Variable"
        /\ Len(e.pre.free_slots) > 0
        /\ e.ret = e.arg[1]

(* C8: allocate_stack returns the last index pushed on the free list and   *)
(* removes it; a remembered offset is reused with stack_ptr and stack_size *)
(* unchanged; an index is appended only when the free list is empty and an *)
(* offset is carved out of stack_ptr only when the entry had none.         *)
(* free_value pushes the freed index on the end of the free list.          *)
C8_FreeListReuse ==
    /\ \A k \in Events("allocate_stack") :
          LET e == calls[k]
              pre == e.pre
              post == e.post
              i == e.ret
              reused == Len(pre.free_slots) > 0
              kept == reused /\ pre.values[i + 1].has_pos
          IN  /\ reused => /\ i = pre.free_slots[Len(pre.free_slots)]
                           /\ post.free_slots = SubSeq(pre.free_slots, 1, Len(pre.free_slots) - 1)
                           /\ Len(post.values) = Len(pre.values)
              /\ ~reused => /\ i = Len(pre.values)
                            /\ Len(post.values) = Len(pre.values) + 1
                            /\ post.free_slots = <<>>
              /\ kept => /\ post.values[i + 1].stack_pos = pre.values[i + 1].stack_pos
                         /\ post.stack_ptr = pre.stack_ptr
                         /\ post.stack_size = pre.stack_size
              /\ ~kept => /\ post.values[i + 1].stack_pos = pre.stack_ptr
                          /\ post.stack_ptr = pre.stack_ptr + WordBytes
                          /\ post.stack_size = Max(pre.stack_size, post.stack_ptr)
              /\ post.values[i + 1].kind = "Variable" /\ ~post.values[i + 1].readonly
    /\ \A k \in Events("free_value") :
          LET e == calls[k] IN
          IsMutable(e.pre.values, e.arg[1]) =>
              e.post.free_slots = Append(e.pre.free_slots, e.arg[1])

(* an allocation from a free list of two indices, the later of which       *)
(* remembered its offset                                                   *)
C8_Witness ==
    \E k \in Events("allocate_stack") :
        LET e == calls[k] IN
        /\ Len(e.pre.free_slots) >= 2
        /\ e.pre.free_slots[1] # e.ret
        /\ e.pre.values[e.ret + 1].has_pos
        /\ e.post.values[e.ret + 1].stack_pos = e.pre.values[e.ret + 1].stack_pos

(* C9: when both registers track one index and register 1 is dirtied,      *)
(* register 2 does not track that index afterwards; no state, between or   *)
(* inside operations, has both registers on one index with register 1      *)
(* dirty.                                                                  *)
C9_AliasInvalidated ==
    /\ \A k \in Events("dirty_reg1") :
          LET e == calls[k] IN
          Aliased(e.pre.reg_state) =>
              ~(e.post.reg_state[2].some /\ e.post.reg_state[2].i = e.pre.reg_state[1].i)
    /\ \A k \in 1 .. Len(calls) :
          ~(Aliased(calls[k].post.reg_state) /\ calls[k].post.reg_state[1].dirty)
    /\ ~(Aliased(reg_state) /\ reg_state[1].dirty)

(* register 1 was dirtied while register 2 tracked the same index *)
C9_Witness ==
    \E k \in Events("dirty_reg1") :
        LET e == calls[k] IN
        /\ Aliased(e.pre.reg_state)
        /\ ~e.post.reg_state[2].some
        /\ e.post.reg_state[1].dirty

(* C10: when one of the three mappings of GeneratedCode::new fails, no     *)
(* artifact is produced, the wrapper is not patched with the failed        *)
(* address, nothing is copied to it, and nothing can be called.            *)
C10_MapFailureSurfaced ==
    /\ generated.made =>
          /\ generated.code = "mapped"
          /\ generated.ghcc_code = "mapped"
          /\ generated.stack = "mapped"
    /\ generated.hole # "MAP_FAILED"
    /\ fault # "segfault"

(* C11: after the drop of an artifact no page of its code region, its      *)
(* wrapper region or its stack is still mapped, and no page beyond the end *)
(* of a region was unmapped.                                               *)
C11_DropReleasesAll ==
    pc = "dropped" =>
        \A k \in {"code", "ghcc_code", "stack"} :
            /\ generated.regions[k].pages = 0
            /\ generated.regions[k].stray = 0

(* C12: when put_in_reg1(v) is entered with register 1 dirty on a value X  *)
(* that is not Free and is not v, the first primitive it emits is a store  *)
(* of register 1 to X's stack offset; the load of v comes after it, and is *)
(* the only other primitive; a call that completes emits both.             *)
C12_SpillBeforeReuse ==
    \A k \in Calls("put_in_reg1") :
        LET e == calls[k]
            v == e.arg[1]
            rs == e.pre.reg_state[1]
        IN  (/\ rs.some /\ rs.dirty /\ rs.i # v
             /\ rs.i < Len(e.pre.values)
             /\ e.pre.values[rs.i + 1].kind # "Free") =>
              /\ Len(Emitted(e)) \in {1, 2}
              /\ Emitted(e)[1] = put_stack(e.pre.values[rs.i + 1].stack_pos)
              /\ e.fault = "none" => Len(Emitted(e)) = 2
              /\ Len(Emitted(e)) = 2 =>
                    Emitted(e)[2] = IF e.pre.values[v + 1].kind = "Variable"
                                    THEN take_1_stack(e.pre.values[v + 1].stack_pos)
                                    ELSE take_1_const(e.pre.values[v + 1].c)

(* a dirty sum in register 1, at an offset that differs from its index, is *)
(* written back before an argument is loaded                               *)
C12_Witness ==
    \E k \in Events("put_in_reg1") :
        LET e == calls[k]
            rs == e.pre.reg_state[1]
        IN  /\ rs.some /\ rs.dirty /\ rs.i # e.arg[1]
            /\ rs.i < Len(e.pre.values)
            /\ e.pre.values[rs.i + 1].kind = "Variable"
            /\ e.pre.values[rs.i + 1].stack_pos # rs.i
            /\ Len(Emitted(e)) = 2
            /\ Emitted(e)[1].op = "put_stack"
            /\ Emitted(e)[2].op = "take_1_stack"

(* C13: when clone_value(v) is called on a Variable while register 1 is    *)
(* dirty, it emits a store, and every store it emits targets the stack     *)
(* offset of the value register 1 tracks.                                  *)
C13_CloneSpillsCanonical ==
    \A k \in Events("clone_value") :
        LET e == calls[k]
            v == e.arg[1]
            rs == e.pre.reg_state[1]
        IN  (/\ e.pre.values[v + 1].kind = "Variable"
             /\ rs.some /\ rs.dirty
             /\ rs.i < Len(e.pre.values)
             /\ e.pre.values[rs.i + 1].kind = "Variable") =>
              /\ \E j \in 1 .. Len(Emitted(e)) : Emitted(e)[j].op = "put_stack"
              /\ \A j \in 1 .. Len(Emitted(e)) :
                    Emitted(e)[j].op = "put_stack" =>
                        Emitted(e)[j].n = e.pre.values[rs.i + 1].stack_pos

(* C14: put_in_reg1(v) entered with register 1 on v, and put_in_reg2(v)    *)
(* entered with register 2 on v, emit nothing and leave the register state *)
(* as it was, the register being clean or dirty.                           *)
C14_ResidentLoadIsNoOp ==
    /\ \A k \in Events("put_in_reg1") :
          LET e == calls[k] IN
          (e.pre.reg_state[1].some /\ e.pre.reg_state[1].i = e.arg[1]) =>
              /\ Emitted(e) = <<>>
              /\ e.post.reg_state = e.pre.reg_state
    /\ \A k \in Events("put_in_reg2") :
          LET e == calls[k] IN
          (e.pre.reg_state[2].some /\ e.pre.reg_state[2].i = e.arg[1]) =>
              /\ Emitted(e) = <<>>
              /\ e.post.reg_state = e.pre.reg_state

(* C15: put_in_reg2(v) entered with register 1 on v completes, emits the   *)
(* duplicate of register 1 into register 2 and nothing else, and leaves    *)
(* register 2 tracking v.                                                  *)
C15_RegisterMove ==
    \A k \in Calls("put_in_reg2") :
        LET e == calls[k] IN
        (e.pre.reg_state[1].some /\ e.pre.reg_state[1].i = e.arg[1]) =>
            /\ e.fault = "none"
            /\ Emitted(e) = <<duplex>>
            /\ e.post.reg_state[2].some /\ e.post.reg_state[2].i = e.arg[1]

(* C16: between operations a dirty register tracks a Variable that is not  *)
(* read-only, or a Free entry, never a Constant or a read-only argument;   *)
(* free_reg never panics on a dirty read-only or constant value.           *)
C16_DirtyImpliesPromoted ==
    /\ \A k \in 1 .. 2 :
          (reg_state[k].some /\ reg_state[k].dirty) =>
              /\ reg_state[k].i < Len(values)
              /\ \/ values[reg_state[k].i + 1].kind = "Free"
                 \/ /\ values[reg_state[k].i + 1].kind = "Variable"
                    /\ ~values[reg_state[k].i + 1].readonly
    /\ fault \notin {"dirty readonly value", "dirty const value"}

(* register 1 is dirty on a Variable that the last add promoted from a     *)
(* Constant, while the table holds another entry that is a Variable or     *)
(* Free beyond the arguments                                               *)
C16_Witness ==
    /\ reg_state[1].some /\ reg_state[1].dirty
    /\ reg_state[1].i < Len(values)
    /\ values[reg_state[1].i + 1].kind = "Variable"
    /\ \E k \in Events("dirty_reg1") :
          LET e == calls[k] IN
          /\ e.pre.reg_state[1].some
          /\ e.pre.values[e.pre.reg_state[1].i + 1].kind = "Constant"
          /\ e.ret = reg_state[1].i
    /\ \E j \in 1 .. Len(values) :
          /\ j > args_size
          /\ j # reg_state[1].i + 1
          /\ values[j].kind \in {"Variable", "Free"}

(* C17: the free list holds no index twice and only indices of Free        *)
(* entries; an index allocate_stack returned in the last operation is      *)
(* owned by one live handle at most; free_value on a Free entry changes    *)
(* neither the value table nor the free list.                              *)
C17_FreeListIntegrity ==
    /\ \A a, b \in 1 .. Len(free_slots) : a # b => free_slots[a] # free_slots[b]
    /\ \A a \in 1 .. Len(free_slots) :
          /\ free_slots[a] < Len(values)
          /\ values[free_slots[a] + 1].kind = "Free"
    /\ fault = "none" => \A k \in Events("allocate_stack") : Refs(calls[k].ret) <= 1
    /\ \A k \in Events("free_value") :
          LET e == calls[k] IN
          e.pre.values[e.arg[1] + 1].kind = "Free" =>
              /\ e.post.values = e.pre.values
              /\ e.post.free_slots = e.pre.free_slots

(* C18: stack slots are exclusive.  In every reachable state no value that  *)
(* is not read-only (live, or remembered in a Free entry) has an offset     *)
(* below WordBytes * args, argument i is the read-only entry i of the table *)
(* at offset WordBytes * i, no two table indices carry the same offset, and *)
(* stack_size >= stack_ptr >= offset + WordBytes for every assigned offset; *)
(* within a session (from one reset to the next) stack_ptr never decreases. *)
C18_StackSlotsExclusive ==
    /\ [](LET Assigned == {k \in 1 .. Len(values) : values[k].has_pos} IN
          /\ \A k \in Assigned :
                ~values[k].readonly => values[k].stack_pos >= WordBytes * args_size
          /\ \A i \in 0 .. args_size - 1 :
                /\ i < Len(values)
                /\ values[i + 1] = Variable("I64", WordBytes * i, TRUE)
          /\ \A j, k \in Assigned : j # k => values[j].stack_pos # values[k].stack_pos
          /\ stack_size >= stack_ptr
          /\ \A k \in Assigned : stack_ptr >= values[k].stack_pos + WordBytes)
    /\ [][stack_ptr' >= stack_ptr \/ last'.op = "reset"]_vars

(* C19: emitted stack accesses stay inside the private stack.  Once the     *)
(* artifact of a session is built, every offset o of an emitted             *)
(* take_1_stack, take_2_stack or put_stack is a multiple of WordBytes and   *)
(* o + WordBytes is at most the stack size handed to GeneratedCode::new,    *)
(* in sessions without arguments too.                                       *)
C19_StackAccessInBounds ==
    generated.made =>
        \A k \in 1 .. Len(code) :
            code[k].op \in {"take_1_stack", "take_2_stack", "put_stack"} =>
                /\ code[k].n % WordBytes = 0
                /\ code[k].n + WordBytes <= generated.stack_len

(* C20: register tracking stays valid across clone.  After a clone_value(v) *)
(* on a Variable that returned index c, register 1 tracks v, c or the index *)
(* it tracked before the call, and that index is an entry of the value      *)
(* table that is not Free, so that no later constant or allocation takes    *)
(* it; the free list may hold indices when the clone is made.               *)
C20_CloneKeepsTracking ==
    \A k \in Events("clone_value") :
        LET e == calls[k]
            v == e.arg[1]
            reg1 == e.post.reg_state[1]
        IN  (e.pre.values[v + 1].kind = "Variable" /\ reg1.some) =>
                /\ reg1.i \in {v, e.ret} \cup (IF e.pre.reg_state[1].some
                                               THEN {e.pre.reg_state[1].i} ELSE {})
                /\ reg1.i < Len(e.post.values)
                /\ e.post.values[reg1.i + 1].kind # "Free"

(* C21: reset returns the session to the state new(args) produces.  Right   *)
(* after a reset the value table holds exactly the args read-only argument  *)
(* entries at offsets 0, WordBytes, ..., the free list and both registers   *)
(* are empty and stack_ptr = stack_size = WordBytes * args; and in every    *)
(* state no handle made by a constant constructor has the index of an       *)
(* argument.                                                                *)
C21_ResetRestoresNew ==
    /\ last.op = "reset" =>
          /\ values = NewValues(args_size)
          /\ free_slots = <<>>
          /\ reg_state = <<None, None>>
          /\ stack_ptr = args_size * WordBytes
          /\ stack_size = args_size * WordBytes
          /\ code = <<>>
    /\ \A h \in Live : h.expr[1] = "const" => h.i >= args_size

(* C22: dirty_reg1 invalidates register 2 only on a true alias.  A          *)
(* dirty_reg1 call entered with register 2 on an index that register 1 does *)
(* not track leaves register 2's occupant and dirty flag as they were, and  *)
(* a call entered with both registers on one index leaves register 2        *)
(* empty.                                                                   *)
C22_OnlyAliasInvalidated ==
    \A k \in Calls("dirty_reg1") :
        LET e == calls[k] IN
        /\ (e.pre.reg_state[2].some /\ ~Aliased(e.pre.reg_state)) =>
              e.post.reg_state[2] = e.pre.reg_state[2]
        /\ Aliased(e.pre.reg_state) => e.post.reg_state[2] = None

====
